---------------------------- MODULE Spec2Model ----------------------------
(***************************************************************************)
(* Customer / Problems schemas (pydantic v1 models generated by            *)
(* datamodel-codegen), the MockCustomerFactory and the test_customer       *)
(* smoke test.                                                             *)
(*                                                                         *)
(* The schema classes only declare fields; what construction, attribute    *)
(* assignment and serialization do is what pydantic's BaseModel does for   *)
(* such a declaration, and what build() does is what pydantic_factories'   *)
(* ModelFactory does for the factory declaration.  Those behaviours are    *)
(* modelled at the declaration that selects them.                          *)
(***************************************************************************)
EXTENDS Integers, Sequences, FiniteSets, TLC

(***************************************************************************)
(* Bounds                                                                  *)
(***************************************************************************)
\* integers that appear as input values are 0..MaxInt
MaxInt == 1
\* number of MockCustomerFactory.build() calls made by the customers fixture
\* (range(25) in the source, bounded here)
BatchSize == 3
\* identifiers the factory's integer generator can return are 0..MaxId
MaxId == 2

(***************************************************************************)
(* Python values.  Every value has the same record shape so that any two   *)
(* values can be compared:                                                 *)
(*   t     "null" | "int" | "str" | "list" | "dict" | "obj"                *)
(*   cls   class name of a model instance ("" otherwise)                   *)
(*   n     the integer of an "int"                                         *)
(*   s     the characters of a "str"                                       *)
(*   items the elements of a "list"                                        *)
(*   m     key -> value of a "dict", field name -> value of an "obj"       *)
(***************************************************************************)
EmptyMap == [k \in {} |-> 0]

None == [t |-> "null", cls |-> "", n |-> 0, s |-> <<>>, items |-> <<>>, m |-> EmptyMap]

PyInt(i) == [t |-> "int", cls |-> "", n |-> i, s |-> <<>>, items |-> <<>>, m |-> EmptyMap]

PyStr(chars) == [t |-> "str", cls |-> "", n |-> 0, s |-> chars, items |-> <<>>, m |-> EmptyMap]

PyList(xs) == [t |-> "list", cls |-> "", n |-> 0, s |-> <<>>, items |-> xs, m |-> EmptyMap]

PyDict(map) == [t |-> "dict", cls |-> "", n |-> 0, s |-> <<>>, items |-> <<>>, m |-> map]

PyObj(model, map) == [t |-> "obj", cls |-> model, n |-> 0, s |-> <<>>, items |-> <<>>, m |-> map]

\* truthiness, as used by `assert customer.name`
Truthy(v) ==
    CASE v.t = "null" -> FALSE
      [] v.t = "int"  -> v.n # 0
      [] v.t = "str"  -> Len(v.s) > 0
      [] v.t = "list" -> Len(v.items) > 0
      [] v.t = "dict" -> DOMAIN v.m # {}
      [] OTHER        -> TRUE

(***************************************************************************)
(* str(int) and int(str), the conversions pydantic applies to scalars      *)
(***************************************************************************)
DigitChars == <<"0", "1", "2", "3", "4", "5", "6", "7", "8", "9">>

IsDigit(c) == \E d \in 1..10 : DigitChars[d] = c

DigitVal(c) == (CHOOSE d \in 1..10 : DigitChars[d] = c) - 1

RECURSIVE NatToStr(_)
NatToStr(i) ==
    IF i < 10 THEN <<DigitChars[i + 1]>>
    ELSE NatToStr(i \div 10) \o <<DigitChars[(i % 10) + 1]>>

\* str(i)
IntToStr(i) == IF i < 0 THEN <<"-">> \o NatToStr(0 - i) ELSE NatToStr(i)

RECURSIVE StripLeft(_)
StripLeft(chars) ==
    IF Len(chars) > 0 /\ Head(chars) = " " THEN StripLeft(Tail(chars)) ELSE chars

RECURSIVE StripRight(_)
StripRight(chars) ==
    IF Len(chars) > 0 /\ chars[Len(chars)] = " "
    THEN StripRight(SubSeq(chars, 1, Len(chars) - 1))
    ELSE chars

RECURSIVE DigitsToNat(_, _)
DigitsToNat(chars, acc) ==
    IF Len(chars) = 0 THEN acc
    ELSE DigitsToNat(Tail(chars), acc * 10 + DigitVal(Head(chars)))

\* int(chars): surrounding blanks stripped, an optional sign, then digits
StrToInt(chars) ==
    LET body   == StripRight(StripLeft(chars))
        signed == Len(body) > 0 /\ Head(body) \in {"+", "-"}
        digits == IF signed THEN Tail(body) ELSE body
        good   == Len(digits) > 0 /\ \A k \in 1..Len(digits) : IsDigit(digits[k])
        mag    == IF good THEN DigitsToNat(digits, 0) ELSE 0
    IN  [ok |-> good,
         n  |-> IF signed /\ Head(body) = "-" THEN 0 - mag ELSE mag]

(***************************************************************************)
(* The schemas: class -> declared fields, in declaration order.  A field   *)
(* without Field(..., alias=...) has its own name as alias.                *)
(*   type "str" | "int" | "models" (List[item]) | "dicts" (List[Dict])     *)
(***************************************************************************)
Fld(fname, falias, ftype, fitem) ==
    [name |-> fname, alias |-> falias, type |-> ftype, item |-> fitem]

Customer ==
    << Fld("name", "name", "str", ""),
       Fld("email", "email", "str", ""),
       Fld("role", "role", "str", ""),
       Fld("customer_id", "customerId", "int", "") >>

BaseCustomer ==
    << Fld("name", "name", "str", ""),
       Fld("email", "email", "str", ""),
       Fld("role", "role", "str", ""),
       Fld("customer_id", "customerId", "int", "") >>

AssociatedDrugItem ==
    << Fld("name", "name", "str", ""),
       Fld("dose", "dose", "str", ""),
       Fld("strength", "strength", "str", "") >>

AssociatedDrug2Item ==
    << Fld("name", "name", "str", ""),
       Fld("dose", "dose", "str", ""),
       Fld("strength", "strength", "str", "") >>

ClassNameItem ==
    << Fld("associated_drug", "associatedDrug", "models", "AssociatedDrugItem"),
       Fld("associated_drug_2", "associatedDrug#2", "models", "AssociatedDrug2Item") >>

ClassName2Item ==
    << Fld("associated_drug", "associatedDrug", "models", "AssociatedDrugItem"),
       Fld("associated_drug_2", "associatedDrug#2", "models", "AssociatedDrug2Item") >>

MedicationsClass ==
    << Fld("class_name", "className", "models", "ClassNameItem"),
       Fld("class_name2", "className2", "models", "ClassName2Item") >>

Medication ==
    << Fld("medications_classes", "medicationsClasses", "models", "MedicationsClass") >>

Lab ==
    << Fld("missing_field", "missing_field", "str", "") >>

Diabetes ==
    << Fld("medications", "medications", "models", "Medication"),
       Fld("labs", "labs", "models", "Lab") >>

Problem ==
    << Fld("diabetes", "Diabetes", "models", "Diabetes"),
       Fld("asthma", "Asthma", "dicts", "") >>

BaseProblems ==
    << Fld("problems", "problems", "models", "Problem") >>

Models ==
    {"Customer", "BaseCustomer", "AssociatedDrugItem", "AssociatedDrug2Item",
     "ClassNameItem", "ClassName2Item", "MedicationsClass", "Medication", "Lab",
     "Diabetes", "Problem", "BaseProblems"}

Fields(model) ==
    CASE model = "Customer"            -> Customer
      [] model = "BaseCustomer"        -> BaseCustomer
      [] model = "AssociatedDrugItem"  -> AssociatedDrugItem
      [] model = "AssociatedDrug2Item" -> AssociatedDrug2Item
      [] model = "ClassNameItem"       -> ClassNameItem
      [] model = "ClassName2Item"      -> ClassName2Item
      [] model = "MedicationsClass"    -> MedicationsClass
      [] model = "Medication"          -> Medication
      [] model = "Lab"                 -> Lab
      [] model = "Diabetes"            -> Diabetes
      [] model = "Problem"             -> Problem
      [] model = "BaseProblems"        -> BaseProblems

FieldNames(model) == {Fields(model)[k].name : k \in 1..Len(Fields(model))}

FieldAliases(model) == {Fields(model)[k].alias : k \in 1..Len(Fields(model))}

\* (variant: the Config line left out, pydantic's default)
population_by_alias_only == FALSE

\* class Config of every schema class: allow_population_by_field_name = True
allow_population_by_field_name == TRUE

\* (variant: a frozen Config)
mutation_forbidden == FALSE

\* class Config sets neither allow_mutation = False nor frozen = True
allow_mutation == TRUE

(***************************************************************************)
(* Validation of one input mapping against a schema (BaseModel.__init__).  *)
(* A result is [v |-> value, errors |-> sequence of [loc, type]]; the loc  *)
(* of an error is the path of aliases (and list positions) to the value.   *)
(***************************************************************************)
Err(eloc, etype) == [loc |-> eloc, type |-> etype]

Good(val) == [v |-> val, errors |-> <<>>]

Bad(val, eloc, etype) == [v |-> val, errors |-> <<Err(eloc, etype)>>]

\* a list position as a loc element (lists here are shorter than 10)
IndexName(i) == DigitChars[i + 1]

\* (variant: a strict text field)
strict_str_validator(val, eloc) ==
    IF val.t = "str" THEN Good(val) ELSE Bad(val, eloc, "type_error.str")

\* field: str -- text is taken as is, a number is converted with str()
str_validator(val, eloc) ==
    CASE val.t = "str" -> Good(val)
      [] val.t = "int" -> Good(PyStr(IntToStr(val.n)))
      [] OTHER         -> Bad(val, eloc, "type_error.str")

\* field: int -- an integer is taken as is, anything else goes through int()
int_validator(val, eloc) ==
    CASE val.t = "int" -> Good(val)
      [] val.t = "str" ->
            IF StrToInt(val.s).ok THEN Good(PyInt(StrToInt(val.s).n))
            ELSE Bad(val, eloc, "type_error.integer")
      [] OTHER         -> Bad(val, eloc, "type_error.integer")

\* an item of List[Dict[str, Any]]: a dict as is, dict(x) of anything else
dict_validator(val, eloc) ==
    CASE val.t = "dict" -> Good(val)
      [] val.t = "list" /\ Len(val.items) = 0 -> Good(PyDict(EmptyMap))
      [] OTHER          -> Bad(val, eloc, "type_error.dict")

\* (variant: only the alias is looked up)
InputOfAliasOnly(field, data) ==
    IF field.alias \in DOMAIN data
    THEN [found |-> TRUE, v |-> data[field.alias]]
    ELSE [found |-> FALSE, v |-> None]

\* the value the input gives a field: under its alias first, then, as the
\* Config allows population by field name, under its name
InputOf(field, data) ==
    IF field.alias \in DOMAIN data
    THEN [found |-> TRUE, v |-> data[field.alias]]
    ELSE IF allow_population_by_field_name /\ field.alias # field.name
            /\ field.name \in DOMAIN data
    THEN [found |-> TRUE, v |-> data[field.name]]
    ELSE [found |-> FALSE, v |-> None]

RECURSIVE validate_model(_, _, _)
RECURSIVE validate_field(_, _, _)
RECURSIVE validate_items(_, _, _, _)
RECURSIVE validate_fields(_, _, _, _)

\* an item of List[model]: an instance of the class as is, a dict through
\* the class's own validation, dict(x) of anything else
validate_submodel(model, val, eloc) ==
    CASE val.t = "obj" /\ val.cls = model -> Good(val)
      [] val.t = "dict" -> validate_model(model, val.m, eloc)
      [] val.t = "list" /\ Len(val.items) = 0 -> validate_model(model, EmptyMap, eloc)
      [] OTHER -> Bad(val, eloc, "type_error.dict")

\* the items of a list from position k on; every item is validated and
\* every error kept
validate_items(field, xs, k, eloc) ==
    IF k > Len(xs) THEN [v |-> <<>>, errors |-> <<>>]
    ELSE LET iloc == eloc \o <<IndexName(k - 1)>>
             one  == IF field.type = "models"
                     THEN validate_submodel(field.item, xs[k], iloc)
                     ELSE dict_validator(xs[k], iloc)
             rest == validate_items(field, xs, k + 1, eloc)
         IN  [v |-> <<one.v>> \o rest.v, errors |-> one.errors \o rest.errors]

\* ModelField.validate: None is refused for every (required, non-Optional)
\* field, then the validator of the declared type runs
validate_field(field, val, eloc) ==
    CASE val.t = "null"     -> Bad(val, eloc, "type_error.none.not_allowed")
      [] field.type = "str" -> str_validator(val, eloc)
      [] field.type = "int" -> int_validator(val, eloc)
      [] OTHER ->
            IF val.t # "list" THEN Bad(val, eloc, "type_error.list")
            ELSE LET r == validate_items(field, val.items, 1, eloc)
                 IN  [v |-> PyList(r.v), errors |-> r.errors]

\* (variant: the loop stops at the first field in error)
RECURSIVE validate_fields_fail_fast(_, _, _, _)
validate_fields_fail_fast(model, data, k, eloc) ==
    IF k > Len(Fields(model)) THEN [values |-> EmptyMap, errors |-> <<>>]
    ELSE LET field == Fields(model)[k]
             floc  == eloc \o <<field.alias>>
             got   == InputOf(field, data)
             one   == IF got.found THEN validate_field(field, got.v, floc)
                      ELSE Bad(None, floc, "value_error.missing")
             rest  == validate_fields_fail_fast(model, data, k + 1, eloc)
         IN  IF one.errors # <<>> THEN [values |-> EmptyMap, errors |-> one.errors]
             ELSE [values |-> [f \in {field.name} \cup DOMAIN rest.values |->
                                 IF f = field.name THEN one.v ELSE rest.values[f]],
                   errors |-> rest.errors]

\* validate_model's loop over the fields from position k on: a missing
\* field is an error at its alias, a present one is validated; errors of
\* all fields are collected, values only of the fields that validated
validate_fields(model, data, k, eloc) ==
    IF k > Len(Fields(model)) THEN [values |-> EmptyMap, errors |-> <<>>]
    ELSE LET field == Fields(model)[k]
             floc  == eloc \o <<field.alias>>
             got   == InputOf(field, data)
             one   == IF got.found THEN validate_field(field, got.v, floc)
                      ELSE Bad(None, floc, "value_error.missing")
             rest  == validate_fields(model, data, k + 1, eloc)
         IN  [values |-> IF one.errors = <<>>
                         THEN [f \in {field.name} \cup DOMAIN rest.values |->
                                  IF f = field.name THEN one.v ELSE rest.values[f]]
                         ELSE rest.values,
              errors |-> one.errors \o rest.errors]

\* Model(**data): the instance, or the ValidationError's entries
validate_model(model, data, eloc) ==
    LET r == validate_fields(model, data, 1, eloc)
    IN  IF r.errors = <<>> THEN Good(PyObj(model, r.values))
        ELSE [v |-> None, errors |-> r.errors]

(***************************************************************************)
(* Serialization: BaseModel.dict(by_alias=...)                             *)
(***************************************************************************)
\* (variant: by_alias ignored)
OutKeyByName(field, by_alias) == field.name

\* the key a field is emitted under
OutKey(field, by_alias) == IF by_alias THEN field.alias ELSE field.name

RECURSIVE to_dict(_, _)
to_dict(val, by_alias) ==
    CASE val.t = "obj" ->
            LET fs == Fields(val.cls)
                ks == {k \in 1..Len(fs) : fs[k].name \in DOMAIN val.m}
                at(key) == fs[CHOOSE k \in ks : OutKey(fs[k], by_alias) = key]
            IN  PyDict([key \in {OutKey(fs[k], by_alias) : k \in ks} |->
                          to_dict(val.m[at(key).name], by_alias)])
      [] val.t = "list" ->
            PyList([k \in 1..Len(val.items) |-> to_dict(val.items[k], by_alias)])
      [] val.t = "dict" ->
            PyDict([key \in DOMAIN val.m |-> to_dict(val.m[key], by_alias)])
      [] OTHER -> val

(***************************************************************************)
(* Input data                                                              *)
(***************************************************************************)
\* the texts used as input values: a word, and a numeral that is not the
\* str() of its number
Texts == {<<"A">>, <<"0", "1">>}

\* scalar input values: null, integers, texts, and an (empty) list as the
\* value that converts to neither text nor integer
Values ==
    {None, PyList(<<>>)} \cup {PyInt(i) : i \in 0..MaxInt} \cup {PyStr(x) : x \in Texts}

SmallValues == {None, PyInt(MaxInt), PyStr(<<"A">>)}

\* every mapping from some of the keys to the values
Mappings(keys, vals) == UNION {[d -> vals] : d \in SUBSET keys}

\* one input for a class: "alias" keys every field by its alias, "name" by
\* its field name, both with valid values; "bad" leaves the first field out
\* and gives the others null
RECURSIVE Sample(_, _)
Sample(model, style) ==
    LET fs == Fields(model)
        ks == IF style = "bad" THEN 2..Len(fs) ELSE 1..Len(fs)
        key(k) == IF style = "name" THEN fs[k].name ELSE fs[k].alias
        at(x) == fs[CHOOSE k \in ks : key(k) = x]
        val(field) ==
            CASE style = "bad"          -> None
              [] field.type = "str"     -> PyStr(<<"A">>)
              [] field.type = "int"     -> PyInt(MaxInt)
              [] field.type = "models"  -> PyList(<<Sample(field.item, style)>>)
              [] OTHER                  -> PyList(<<PyDict(EmptyMap)>>)
    IN  PyDict([x \in {key(k) : k \in ks} |-> val(at(x))])

\* input values for a list field
ListValues(field) ==
    {None, PyStr(<<"A">>), PyList(<<>>), PyList(<<PyInt(MaxInt)>>)}
    \cup (IF field.type = "models"
          THEN {PyList(<<Sample(field.item, st)>>) : st \in {"alias", "name", "bad"}}
               \cup {PyList(<<Sample(field.item, "alias"), Sample(field.item, "bad")>>)}
          ELSE {PyList(<<PyDict(EmptyMap)>>),
                PyList(<<PyDict([k \in {"x"} |-> None])>>)})

\* the inputs a class is constructed from: for the scalar classes every
\* mapping of names and aliases to scalar values, for the classes of lists
\* every mapping of names and aliases to the list values of the fields
Inputs(model) ==
    LET fs   == Fields(model)
        keys == FieldNames(model) \cup FieldAliases(model)
        fieldOf(key) == fs[CHOOSE k \in 1..Len(fs) : key \in {fs[k].name, fs[k].alias}]
        lv   == [key \in keys |-> ListValues(fieldOf(key))]
        all  == UNION {lv[key] : key \in keys}
    IN  IF model = "Customer" THEN Mappings(keys, Values)
        ELSE IF \A k \in 1..Len(fs) : fs[k].type \in {"str", "int"}
        THEN Mappings(keys, SmallValues)
        ELSE {f \in Mappings(keys, all) : \A key \in DOMAIN f : f[key] \in lv[key]}

InputsOf == [model \in Models |-> Inputs(model)]

\* values assigned to attributes after construction
AssignValues == {None, PyInt(MaxInt), PyStr(<<"A">>)}

(***************************************************************************)
(* State                                                                   *)
(***************************************************************************)
VARIABLES
    pc,         \* "start" | "built" | "raised" | "assigned" | "dumped" | "reparsed"
    cls,        \* the class being constructed
    data,       \* the mapping given to the constructor
    obj,        \* the instance (None when construction raised)
    errors,     \* the entries of the ValidationError raised by construction
    orig,       \* the instance as it was when constructed
    wire,       \* the mapping dict() returned
    aliased,    \* the by_alias argument of that dict() call
    again,      \* result of constructing the class from wire
    assigned,   \* the attribute assignment made on the instance: [attr, val]
    fpc,        \* "import" | "ready" | "called" | "test" | "breakpoint" | "failed" | "passed"
    attrs,      \* class attributes of MockCustomerFactory
    customers,  \* the list the customers fixture has built so far
    idx,        \* number of customers test_customer has checked
    overrides,  \* keyword arguments of the last build(**kwargs) call
    built       \* result of the last build(**kwargs) call

vars == <<pc, cls, data, obj, errors, orig, wire, aliased, again, assigned,
          fpc, attrs, customers, idx, overrides, built>>

modelVars == <<pc, cls, data, obj, errors, orig, wire, aliased, again, assigned>>

factoryVars == <<fpc, attrs, customers, idx, overrides, built>>

NoResult == [v |-> None, errors |-> <<>>]

InitModel ==
    /\ pc = "start"
    /\ cls = "Customer"
    /\ data = EmptyMap
    /\ obj = None
    /\ errors = <<>>
    /\ orig = None
    /\ wire = None
    /\ aliased = FALSE
    /\ again = NoResult
    /\ assigned = [attr |-> "", val |-> None]

InitFactory ==
    /\ fpc = "import"
    /\ attrs = EmptyMap
    /\ customers = <<>>
    /\ idx = 0
    /\ overrides = EmptyMap
    /\ built = NoResult

Init == InitModel /\ InitFactory

(***************************************************************************)
(* Operations on a schema class                                            *)
(***************************************************************************)
\* model(**input): the validated instance, or ValidationError and no instance
Construct(model, input) ==
    /\ pc = "start"
    /\ LET r == validate_model(model, input, <<>>)
       IN  /\ pc' = IF r.errors = <<>> THEN "built" ELSE "raised"
           /\ obj' = r.v
           /\ orig' = r.v
           /\ errors' = r.errors
    /\ cls' = model
    /\ data' = input
    /\ UNCHANGED <<wire, aliased, again, assigned>>
    /\ UNCHANGED factoryVars

\* BaseModel.__setattr__: obj.<attr> = val.  Only a declared field name can
\* be assigned (anything else raises ValueError); the value is stored
\* without validation
SetAttr(attr, val) ==
    /\ pc = "built"
    /\ IF attr \in FieldNames(cls) /\ allow_mutation
       THEN obj' = [obj EXCEPT !.m[attr] = val]
       ELSE obj' = obj
    /\ assigned' = [attr |-> attr, val |-> val]
    /\ pc' = "assigned"
    /\ UNCHANGED <<cls, data, errors, orig, wire, aliased, again>>
    /\ UNCHANGED factoryVars

\* obj.dict(by_alias=by_alias); by_alias defaults to False
Dict(by_alias) ==
    /\ pc = "built"
    /\ wire' = to_dict(obj, by_alias)
    /\ aliased' = by_alias
    /\ pc' = "dumped"
    /\ UNCHANGED <<cls, data, obj, errors, orig, again, assigned>>
    /\ UNCHANGED factoryVars

\* model(**wire): construction from the serialized form
Reconstruct ==
    /\ pc = "dumped"
    /\ again' = validate_model(cls, wire.m, <<>>)
    /\ pc' = "reparsed"
    /\ UNCHANGED <<cls, data, obj, errors, orig, wire, aliased, assigned>>
    /\ UNCHANGED factoryVars

Next ==
    \/ /\ pc = "start"
       /\ \E model \in Models : \E input \in InputsOf[model] : Construct(model, input)
    \/ /\ pc = "built"
       /\ \E attr \in FieldNames(cls) \cup FieldAliases(cls) :
             \E val \in AssignValues : SetAttr(attr, val)
    \/ \E by_alias \in BOOLEAN : Dict(by_alias)
    \/ Reconstruct

Spec == Init /\ [][Next]_vars

(***************************************************************************)
(* MockCustomerFactory                                                     *)
(***************************************************************************)
\* what the Faker providers can return: non-empty texts
FakeNames == {PyStr(<<"A", "n", "n">>), PyStr(<<"B", "o", "b">>)}

FakeEmails == {PyStr(<<"a", "@", "x">>), PyStr(<<"b", "@", "y">>)}

FakeJobs == {PyStr(<<"C", "o", "o", "k">>), PyStr(<<"N", "u", "r", "s", "e">>)}

\* what the factory's generator for a field of type int can return
FakeInts == 0..MaxId

\* the values one build() call can draw from the generators
Draws == [int : FakeInts, str : FakeNames]

\* the class body of MockCustomerFactory, run once when the module is
\* imported: each attribute is the value FAKE returned at that moment
DefineFactory ==
    /\ fpc = "import"
    /\ \E e \in FakeEmails, nm \in FakeNames, r \in FakeJobs :
          attrs' = [a \in {"email", "name", "role"} |->
                      CASE a = "email" -> e [] a = "name" -> nm [] OTHER -> r]
    /\ fpc' = "ready"
    /\ UNCHANGED <<customers, idx, overrides, built>>
    /\ UNCHANGED modelVars

\* (variant: the attribute is generated anew on every call)
handle_factory_field_per_call(field_name, gen) == gen.str

\* a factory attribute that is a plain value is used as it is
handle_factory_field(field_name, gen) == attrs[field_name]

\* a field the factory class does not declare is generated from its type
get_field_value(field, gen) ==
    IF field.type = "int" THEN PyInt(gen.int) ELSE gen.str

\* a field is filled in unless the caller's kwargs already hold its key
should_set_field_value(field_name, kwargs) == field_name \notin DOMAIN kwargs

\* build()'s loop over the fields of __model__ from position k on: the key
\* of a field is its alias
RECURSIVE build_kwargs(_, _, _)
build_kwargs(kwargs, k, gen) ==
    IF k > Len(Customer) THEN kwargs
    ELSE LET field      == Customer[k]
             field_name == field.alias
             value      == IF field_name \in DOMAIN attrs
                           THEN handle_factory_field(field_name, gen)
                           ELSE get_field_value(field, gen)
             filled     == IF should_set_field_value(field_name, kwargs)
                           THEN [key \in DOMAIN kwargs \cup {field_name} |->
                                   IF key = field_name THEN value ELSE kwargs[key]]
                           ELSE kwargs
         IN  build_kwargs(filled, k + 1, gen)

\* MockCustomerFactory.build(**kwargs): Customer(**kwargs completed)
build(kwargs, gen) == validate_model("Customer", build_kwargs(kwargs, 1, gen), <<>>)

\* overrides a caller passes to build(): field name -> a valid value
OverrideValues(fname) ==
    IF fname = "customer_id" THEN {PyInt(i) : i \in FakeInts} ELSE {PyStr(<<"Z">>)}

Overrides ==
    {f \in Mappings(FieldNames("Customer"),
                    UNION {OverrideValues(fname) : fname \in FieldNames("Customer")}) :
        \A fname \in DOMAIN f : f[fname] \in OverrideValues(fname)}

\* a program that imported the factory calls
\* MockCustomerFactory.build(**kwargs), any number of times
Build(kwargs, gen) ==
    /\ fpc \in {"ready", "called"}
    /\ overrides' = kwargs
    /\ built' = build(kwargs, gen)
    /\ fpc' = "called"
    /\ UNCHANGED <<attrs, customers, idx>>
    /\ UNCHANGED modelVars

(***************************************************************************)
(* test_customer                                                           *)
(***************************************************************************)
\* the customers fixture, run by pytest right after the import:
\* [MockCustomerFactory.build() for x in range(..)]
Fixture ==
    /\ fpc = "ready"
    /\ \E gens \in [1..BatchSize -> Draws] :
          customers' = [x \in 1..BatchSize |-> build(EmptyMap, gens[x]).v]
    /\ idx' = 0
    /\ fpc' = "test"
    /\ UNCHANGED <<attrs, overrides, built>>
    /\ UNCHANGED modelVars

\* the four asserts of the loop body on one customer
AssertsPass(customer) ==
    /\ Truthy(customer.m["name"])
    /\ Truthy(customer.m["email"])
    /\ Truthy(customer.m["role"])
    /\ Truthy(customer.m["customer_id"])

\* one iteration of `for customer in customers`: AssertionError ends the
\* test as failed
TestStep ==
    /\ fpc = "test"
    /\ idx < Len(customers)
    /\ IF AssertsPass(customers[idx + 1])
       THEN idx' = idx + 1 /\ fpc' = fpc
       ELSE idx' = idx /\ fpc' = "failed"
    /\ UNCHANGED <<attrs, customers, overrides, built>>
    /\ UNCHANGED modelVars

\* breakpoint() after the loop: the debugger takes over and waits for a
\* command
Breakpoint ==
    /\ fpc = "test"
    /\ idx = Len(customers)
    /\ fpc' = "breakpoint"
    /\ UNCHANGED <<attrs, customers, idx, overrides, built>>
    /\ UNCHANGED modelVars

\* a command typed at the debugger prompt: "continue" lets the test return
\* (passed), "quit" aborts it
DebuggerInput(command) ==
    /\ fpc = "breakpoint"
    /\ fpc' = IF command = "continue" THEN "passed" ELSE "failed"
    /\ UNCHANGED <<attrs, customers, idx, overrides, built>>
    /\ UNCHANGED modelVars

NextFactory ==
    \/ DefineFactory
    \/ /\ fpc \in {"ready", "called"}
       /\ \E kwargs \in Overrides : \E gen \in Draws : Build(kwargs, gen)
    \/ Fixture
    \/ TestStep
    \/ Breakpoint
    \/ \E command \in {"continue", "quit"} : DebuggerInput(command)

FactorySpec == Init /\ [][NextFactory]_vars

(***************************************************************************)
(* Properties of the factory and of the smoke test (FactorySpec)           *)
(***************************************************************************)
NonEmptyText(v) == v.t = "str" /\ Len(v.s) > 0

NonZeroInt(v) == v.t = "int" /\ v.n # 0

\* C1: every instance the customers fixture built has a non-empty name,
\* email and role and a non-zero integer customer_id, whatever the
\* generators returned
C1_BatchFieldsNonEmpty ==
    \A k \in 1..Len(customers) :
        /\ NonEmptyText(customers[k].m["name"])
        /\ NonEmptyText(customers[k].m["email"])
        /\ NonEmptyText(customers[k].m["role"])
        /\ NonZeroInt(customers[k].m["customer_id"])

\* C2: test_customer never enters the interactive pause: after the last
\* assertion has passed it is never waiting for a debugger command
C2_NoInteractivePause == fpc # "breakpoint"

\* C9: build(**overrides) returns a valid Customer in which every field
\* named in overrides has the supplied value and every other field has a
\* generated (or class attribute) value
C9_OverridesTakeEffect ==
    fpc = "called" =>
        /\ built.errors = <<>>
        /\ built.v.t = "obj"
        /\ DOMAIN built.v.m = FieldNames("Customer")
        /\ \A fname \in DOMAIN overrides : built.v.m[fname] = overrides[fname]

\* the fake values of an instance are those drawn at class definition
ClassFakes(customer) ==
    /\ customer.m["name"] = attrs["name"]
    /\ customer.m["email"] = attrs["email"]
    /\ customer.m["role"] = attrs["role"]

\* C10: name, email and role are drawn once, at class definition: every
\* instance built without overrides, in the fixture or by a caller,
\* carries the class's name, email and role; customer_id is what the call
\* generated
C10_FakesDrawnOnce ==
    /\ \A k \in 1..Len(customers) :
          /\ ClassFakes(customers[k])
          /\ customers[k].m["customer_id"].t = "int"
          /\ customers[k].m["customer_id"].n \in FakeInts
    /\ (fpc = "called" /\ overrides = EmptyMap) =>
          (built.errors = <<>> /\ ClassFakes(built.v))

\* two instances of one batch with the same three texts and different ids
C10_Witness ==
    /\ Len(customers) >= 2
    /\ customers[1].m["name"] = customers[2].m["name"]
    /\ customers[1].m["email"] = customers[2].m["email"]
    /\ customers[1].m["role"] = customers[2].m["role"]
    /\ customers[1].m["customer_id"] # customers[2].m["customer_id"]

(***************************************************************************)
(* Properties of construction, assignment and serialization (Spec)         *)
(***************************************************************************)
Constructed == pc \in {"built", "raised"}

IsCustomer == cls \in {"Customer", "BaseCustomer"}

\* the keys of the input that address a field
KeysOf(field) == {field.name, field.alias} \cap DOMAIN data

\* the input gives the field the value val (under every key it uses for it)
Given(field, val) ==
    KeysOf(field) # {} /\ \A key \in KeysOf(field) : data[key] = val

\* the input gives the field no value: no key for it, or only null
Offending(field) == \A key \in KeysOf(field) : data[key] = None

\* the entries of the ValidationError that name the field
EntriesFor(field) == {k \in 1..Len(errors) : errors[k].loc = <<field.alias>>}

\* data with the key `from` renamed to `to`
Renamed(map, from, to) ==
    [key \in (DOMAIN map \ {from}) \cup {to} |->
        IF key = to THEN map[from] ELSE map[key]]

\* C3: a Customer mapping that gives the identifier as customerId and the
\* same mapping with the key customer_id instead both construct, and give
\* the same instance
C3_AliasAndNameAccepted ==
    (pc = "built" /\ IsCustomer
       /\ "customerId" \in DOMAIN data /\ "customer_id" \notin DOMAIN data) =>
        LET other == validate_model(cls, Renamed(data, "customerId", "customer_id"), <<>>)
        IN  /\ other.errors = <<>>
            /\ other.v = obj
            /\ \E i \in 0..MaxInt :
                  /\ obj.m["customer_id"] = PyInt(i)
                  /\ data["customerId"] \in {PyInt(i)} \cup {PyStr(x) : x \in Texts}

C3_Witness ==
    /\ pc = "built" /\ cls = "Customer"
    /\ DOMAIN data = {"name", "email", "role", "customerId"}
    /\ data["customerId"] = PyInt(1)
    /\ obj.m["customer_id"] = PyInt(1)

\* C5: a Customer constructed from the serialized form of a constructed
\* Customer equals it in name, email, role and customer_id, whichever keys
\* the serialization used
C5_RoundTrip ==
    (pc = "reparsed" /\ IsCustomer) =>
        /\ again.errors = <<>>
        /\ again.v.cls = cls
        /\ \A fname \in FieldNames(cls) : again.v.m[fname] = obj.m[fname]

C5_Witness ==
    /\ pc = "reparsed" /\ cls = "Customer" /\ ~aliased
    /\ data["name"] = PyInt(1)
    /\ again.v.m["name"] = PyStr(<<"1">>)
    /\ again.v.m["customer_id"] = PyInt(0)

\* C6: when fields of a Customer mapping are missing or null, construction
\* raises, yields no instance, and the error has exactly one entry for
\* each of those fields, whatever else is wrong; a mapping that lacks only
\* email gets the single entry "email: field required"
C6_AllOffendingFieldsReported ==
    (Constructed /\ IsCustomer) =>
        LET fs  == Fields(cls)
            off == {k \in 1..Len(fs) : Offending(fs[k])}
        IN  /\ off # {} => (pc = "raised" /\ obj = None /\ Len(errors) >= Cardinality(off))
            /\ \A k \in off :
                  /\ Cardinality(EntriesFor(fs[k])) = 1
                  /\ \A e \in EntriesFor(fs[k]) :
                        errors[e].type = IF KeysOf(fs[k]) = {} THEN "value_error.missing"
                                         ELSE "type_error.none.not_allowed"
            /\ (off = {2} /\ KeysOf(fs[2]) = {} /\ Len(errors) = 1) =>
                  errors = <<Err(<<"email">>, "value_error.missing")>>
            /\ pc = "raised" <=> errors # <<>>
            /\ pc = "built" => obj.t = "obj"

\* three fields offending at once, each with its own entry
C6_Witness ==
    /\ pc = "raised" /\ cls = "Customer"
    /\ DOMAIN data = {"name", "role", "customer_id"}
    /\ data["name"] = PyStr(<<"A">>)
    /\ data["role"] = None /\ data["customer_id"] = None
    /\ Len(errors) = 3

\* the declared primitive type of a scalar field, as a value tag
DeclaredTag(field) == IF field.type = "int" THEN "int" ELSE "str"

\* C7 (as claimed): a Customer field given a non-null value that is not of
\* its declared primitive type is rejected with an entry naming the field
C7_OnlyDeclaredTypeAccepted ==
    (Constructed /\ IsCustomer) =>
        \A k \in 1..Len(Fields(cls)) : \A val \in Values :
            (Given(Fields(cls)[k], val) /\ val.t \notin {"null", DeclaredTag(Fields(cls)[k])})
                => EntriesFor(Fields(cls)[k]) # {}

\* the text str() gives a one-digit number
OneDigit(i) == <<DigitChars[i + 1]>>

\* what a value turns into for a field, when the field takes it:
\* text and numbers for a text field (a number as its decimal text),
\* integers and numerals for an integer field (a numeral as its number)
Converted(field, val) ==
    CASE field.type = "str" /\ val.t = "str" -> {val}
      [] field.type = "str" /\ val.t = "int" -> {PyStr(OneDigit(val.n))}
      [] field.type = "int" /\ val.t = "int" -> {val}
      [] field.type = "int" /\ val = PyStr(<<"0", "1">>) -> {PyInt(1)}
      [] OTHER -> {}

\* C7 (amended): a non-null value is accepted when it is of the declared
\* type or converts to it, and the instance then holds the converted
\* value; a value that does not convert is rejected with exactly one
\* entry naming the field
C7_ConvertibleAccepted ==
    (Constructed /\ IsCustomer) =>
        \A k \in 1..Len(Fields(cls)) : \A val \in Values \ {None} :
            LET field == Fields(cls)[k]
            IN  Given(field, val) =>
                  IF Converted(field, val) = {}
                  THEN /\ pc = "raised"
                       /\ Cardinality(EntriesFor(field)) = 1
                       /\ \A e \in EntriesFor(field) :
                             errors[e].type = IF field.type = "int" THEN "type_error.integer"
                                              ELSE "type_error.str"
                  ELSE /\ EntriesFor(field) = {}
                       /\ pc = "built" => obj.m[field.name] \in Converted(field, val)

\* a number taken for the name and a numeral taken for the identifier
C7_Witness ==
    /\ pc = "built" /\ cls = "Customer"
    /\ Given(Fields(cls)[1], PyInt(1)) /\ obj.m["name"] = PyStr(<<"1">>)
    /\ Given(Fields(cls)[4], PyStr(<<"0", "1">>)) /\ obj.m["customer_id"] = PyInt(1)

\* the fields of an instance are emitted under exactly the keys `key`
\* gives them, nested instances included, with their values unchanged
RECURSIVE EmittedUnder(_, _, _)
EmittedUnder(out, val, byAlias) ==
    CASE val.t = "obj" ->
            LET fs == Fields(val.cls)
                key(k) == IF byAlias THEN fs[k].alias ELSE fs[k].name
            IN  /\ out.t = "dict"
                /\ DOMAIN out.m = {key(k) : k \in 1..Len(fs)}
                /\ \A k \in 1..Len(fs) : EmittedUnder(out.m[key(k)], val.m[fs[k].name], byAlias)
      [] val.t = "list" ->
            /\ out.t = "list"
            /\ Len(out.items) = Len(val.items)
            /\ \A k \in 1..Len(val.items) : EmittedUnder(out.items[k], val.items[k], byAlias)
      [] OTHER -> out = val

\* C4 (as claimed): serializing an instance emits every field under its
\* alias where it has one, never under the internal name of an aliased
\* field
C4_SerializedUnderAlias ==
    pc = "dumped" => EmittedUnder(wire, obj, TRUE)

\* C4 (amended): dict(by_alias=True) emits every field, at every level,
\* under its alias where it has one and its name otherwise; dict() with
\* the default by_alias=False emits every field under its internal name
C4_SerializedAsRequested ==
    pc = "dumped" => EmittedUnder(wire, obj, aliased)

\* a ClassNameItem serialized by alias
C4_Witness ==
    /\ pc = "dumped" /\ aliased /\ cls = "ClassNameItem"
    /\ DOMAIN wire.m = {"associatedDrug", "associatedDrug#2"}
    /\ Len(wire.m["associatedDrug#2"].items) = 1

\* C8 (as claimed): once constructed, an instance keeps the field values
\* it was constructed with, whatever is done with it
C8_NeverMutated ==
    pc \in {"built", "assigned", "dumped", "reparsed"} => obj = orig

\* C8 (amended): an assignment to a declared field of an instance replaces
\* that field's value by the assigned value, unvalidated, and leaves the
\* other fields as constructed; an assignment to any other name, and
\* serialization and reconstruction, leave every field as constructed
C8_OnlyAssignmentMutates ==
    /\ pc \in {"built", "dumped", "reparsed"} => obj = orig
    /\ pc = "assigned" =>
          IF assigned.attr \in FieldNames(cls)
          THEN /\ obj.m[assigned.attr] = assigned.val
               /\ \A fname \in FieldNames(cls) \ {assigned.attr} :
                     obj.m[fname] = orig.m[fname]
               /\ DOMAIN obj.m = DOMAIN orig.m /\ obj.cls = orig.cls
          ELSE obj = orig

\* a text field of a Customer now holding null
C8_Witness ==
    /\ pc = "assigned" /\ cls = "Customer"
    /\ assigned.attr = "email" /\ assigned.val = None
    /\ orig.m["email"] = PyStr(<<"A">>)
    /\ obj.m["email"] = None

=============================================================================
